---- MODULE Spec2Model ----
(***************************************************************************)
(* Model of package querier (querybuilder.go): the options that mutate a   *)
(* Query accumulator and the four builders that render it.                  *)
(*                                                                         *)
(* A Go string is modelled as a sequence of atomic symbols and string      *)
(* concatenation as \o.  Every string literal of the source is one symbol, *)
(* except that the placeholder "?" is always a symbol of its own (" ?" is  *)
(* <<" ", "?">>), so that placeholders can be counted.  Table and field    *)
(* names are sequences of name symbols ("users", ".", "id").  Argument     *)
(* values (Go's any) are integers.                                         *)
(*                                                                         *)
(* A QueryBuilderOption is a closure; it is modelled as the record of the  *)
(* values it captures, and applying it (Apply) runs the closure's body.    *)
(***************************************************************************)
EXTENDS Integers, Sequences, FiniteSets, TLC

VARIABLES opts, table, fields, called, query, text, args

vars == <<opts, table, fields, called, query, text, args>>

\* ------------------------------------------------------------- bounds

\* the caller of Spec builds at most this many options, nested ones included
MaxOptions == 3

\* the caller of SpecPredicates, who passes predicates only, builds at most
\* this many, nested ones included
MaxPredicates == 4

\* Where is called with 0..MaxParams values
MaxParams == 2

\* names given to NewInsert / Set in SpecStrip have at most this many symbols
MaxNameLen == 5

\* -------------------------------------------------- program constants

Select == <<"SELECT">>
Update == <<"UPDATE">>
Delete == <<"DELETE">>
Insert == <<"INSERT INTO">>

InsertReplaceCount == 11
UpdateReplaceCount == 1

\* the placeholder token
Q == "?"

\* ------------------------------------------------------------ helpers

\* s1 \o s2 \o ... for a sequence of strings (res += x over a range loop)
RECURSIVE Concat(_)
Concat(ss) ==
    IF ss = <<>> THEN <<>> ELSE Head(ss) \o Concat(Tail(ss))

\* for i, w := range ws { res += w; if i != len(ws)-1 { res += sep } }
RECURSIVE JoinWith(_, _)
JoinWith(ws, sep) ==
    IF ws = <<>> THEN <<>>
    ELSE IF Len(ws) = 1 THEN Head(ws)
    ELSE Head(ws) \o sep \o JoinWith(Tail(ws), sep)

\* strings.Index(s, old) + 1, or 0 when old does not occur in s
Index(s, old) ==
    LET hits == {i \in 1..(Len(s) - Len(old) + 1) :
                    SubSeq(s, i, i + Len(old) - 1) = old}
    IN IF hits = {} THEN 0 ELSE CHOOSE i \in hits : \A j \in hits : i <= j

\* strings.Replace(s, old, "", n) for non-empty old and n >= 0
RECURSIVE Replace(_, _, _)
Replace(s, old, n) ==
    LET i == Index(s, old)
    IN IF n = 0 \/ i = 0 THEN s
       ELSE SubSeq(s, 1, i - 1)
            \o Replace(SubSeq(s, i + Len(old), Len(s)), old, n - 1)

\* ---------------------------------------------------------- the Query

\* &Query{Table: table, params: make([]any, 0), ...}; &Query{} has Table ""
NewQueryStruct(t) ==
    [Table |-> t, where |-> <<>>, params |-> <<>>, join |-> <<>>,
     aggregations |-> <<>>, aggregationParams |-> <<>>,
     sets |-> <<>>, setParams |-> <<>>]

\* ------------------------------------- options: the closures' captures

Where(field, operation, params) ==
    [kind |-> "Where", field |-> field, operation |-> operation, params |-> params]

And(os) == [kind |-> "And", opts |-> os]

Or(os) == [kind |-> "Or", opts |-> os]

Set(field, value) == [kind |-> "Set", field |-> field, value |-> value]

Raw(qtext, params) == [kind |-> "Raw", query |-> qtext, params |-> params]

RawWhere(qtext, params) == [kind |-> "RawWhere", query |-> qtext, params |-> params]

Join(t, joinType, on, equal) ==
    [kind |-> "Join", table |-> t, joinType |-> joinType, on |-> on, equal |-> equal]

Limit(limit) == [kind |-> "Limit", limit |-> limit]

OrderBy(field, order) == [kind |-> "OrderBy", field |-> field, order |-> order]

First == [kind |-> "First"]

\* ------------------------------------------ options: the closures' bodies

\* buildWhere with the separator written after every placeholder
buildWhereTextTrailingComma(field, operation, params) ==
    field \o <<" ">> \o operation
    \o (IF Len(params) = 1 THEN <<" ", Q>>
        ELSE IF Len(params) > 1
             THEN <<" (">> \o Concat([i \in 1..Len(params) |-> <<Q, ",">>])
                  \o <<")">>
             ELSE <<>>)

\* (q *Query).buildWhere: the fragment it returns
buildWhereText(field, operation, params) ==
    field \o <<" ">> \o operation
    \o (IF Len(params) = 1 THEN <<" ", Q>>
        ELSE IF Len(params) > 1
             THEN <<" (">> \o JoinWith([i \in 1..Len(params) |-> <<Q>>], <<",">>)
                  \o <<")">>
             ELSE <<>>)

\* (q *Query).buildWhere: q.params after it
buildWhereParams(q, params) ==
    IF Len(params) >= 1 THEN q.params \o params ELSE q.params

WhereFn(o, q) ==
    LET where == buildWhereText(o.field, o.operation, o.params)
        q1 == [q EXCEPT !.params = buildWhereParams(q, o.params)]
    IN [q1 EXCEPT !.where = Append(q1.where, where)]

RECURSIVE Apply(_, _)
RECURSIVE ApplyAll(_, _)

\* And ranging over its options from the last to the first
AndFnReversed(o, q) ==
    ApplyAll([i \in 1..Len(o.opts) |-> o.opts[Len(o.opts) + 1 - i]], q)

\* for _, opt := range opts { opt(q) }
AndFn(o, q) == ApplyAll(o.opts, q)

\* Or with temp.params put before q.params
OrFnParamsFirst(o, q) ==
    LET temp == ApplyAll(o.opts, NewQueryStruct(<<>>))
        where == JoinWith(temp.where, <<" OR ">>)
    IN [q EXCEPT !.where = Append(q.where, where),
                 !.params = temp.params \o q.params]

\* Or with its fragment parenthesized
OrFnParenthesized(o, q) ==
    LET temp == ApplyAll(o.opts, NewQueryStruct(<<>>))
        where == <<"(">> \o JoinWith(temp.where, <<" OR ">>) \o <<")">>
    IN [q EXCEPT !.where = Append(q.where, where),
                 !.params = q.params \o temp.params]

\* Or that also brings back temp's aggregations
OrFnKeepsAggregations(o, q) ==
    LET temp == ApplyAll(o.opts, NewQueryStruct(<<>>))
        where == JoinWith(temp.where, <<" OR ">>)
    IN [q EXCEPT !.where = Append(q.where, where),
                 !.params = q.params \o temp.params,
                 !.aggregations = q.aggregations \o temp.aggregations,
                 !.aggregationParams = q.aggregationParams \o temp.aggregationParams]

\* the nested options run on temp := &Query{}; only where and params come back
OrFn(o, q) ==
    LET temp == ApplyAll(o.opts, NewQueryStruct(<<>>))
        where == JoinWith(temp.where, <<" OR ">>)
    IN [q EXCEPT !.where = Append(q.where, where),
                 !.params = q.params \o temp.params]

SetFn(o, q) ==
    [q EXCEPT !.sets = Append(q.sets, o.field),
              !.setParams = Append(q.setParams, o.value)]

RawFn(o, q) ==
    [q EXCEPT !.aggregations = Append(q.aggregations, o.query),
              !.aggregationParams = q.aggregationParams \o o.params]

RawWhereFn(o, q) ==
    [q EXCEPT !.where = Append(q.where, o.query),
              !.params = q.params \o o.params]

JoinFn(o, q) ==
    LET join == <<" ">> \o o.joinType \o <<" JOIN ">> \o o.table
                \o (IF o.on # <<>> /\ o.equal # <<>>
                    THEN <<" ON ">> \o o.on \o <<" = ">> \o o.equal
                    ELSE <<>>)
    IN [q EXCEPT !.join = Append(q.join, join)]

LimitFn(o, q) ==
    [q EXCEPT !.aggregations = Append(q.aggregations, <<"LIMIT ", Q>>),
              !.aggregationParams = Append(q.aggregationParams, o.limit)]

OrderByFn(o, q) ==
    [q EXCEPT !.aggregations =
        Append(q.aggregations, <<"ORDER BY ">> \o o.field \o <<" ">> \o o.order)]

FirstFn(o, q) ==
    [q EXCEPT !.aggregations = Append(q.aggregations, <<"LIMIT 1">>)]

\* opt(query): the call of a closure
Apply(o, q) ==
    CASE o.kind = "Where" -> WhereFn(o, q)
      [] o.kind = "And" -> AndFn(o, q)
      [] o.kind = "Or" -> OrFn(o, q)
      [] o.kind = "Set" -> SetFn(o, q)
      [] o.kind = "Raw" -> RawFn(o, q)
      [] o.kind = "RawWhere" -> RawWhereFn(o, q)
      [] o.kind = "Join" -> JoinFn(o, q)
      [] o.kind = "Limit" -> LimitFn(o, q)
      [] o.kind = "OrderBy" -> OrderByFn(o, q)
      [] o.kind = "First" -> FirstFn(o, q)

\* for _, opt := range opts { opt(query) }
ApplyAll(os, q) ==
    IF os = <<>> THEN q ELSE ApplyAll(Tail(os), Apply(Head(os), q))

\* ------------------------------------------------------- the builders

\* " WHERE " + the fragments joined by " AND ", when there is a fragment
RenderWhere(q) ==
    IF Len(q.where) > 0
    THEN <<" WHERE ">> \o JoinWith(q.where, <<" AND ">>)
    ELSE <<>>

\* " " + the aggregations joined by " ", when there is one
RenderAggregations(q) ==
    IF Len(q.aggregations) > 0
    THEN <<" ">> \o JoinWith(q.aggregations, <<" ">>)
    ELSE <<>>

\* the field list of NewQuery: " *", or " f1, f2"
RenderFields(fs) ==
    (IF Len(fs) = 0 THEN <<" *">> ELSE <<>>)
    \o Concat([i \in 1..Len(fs) |->
                 <<" ">> \o fs[i] \o (IF i # Len(fs) THEN <<",">> ELSE <<>>)])

\* the SET list of NewUpdate: " f1 = ?, f2 = ?"
RenderSets(q, t) ==
    Concat([i \in 1..Len(q.sets) |->
              <<" ">> \o Replace(q.sets[i], t \o <<".">>, UpdateReplaceCount)
              \o <<" = ", Q>>
              \o (IF i # Len(q.sets) THEN <<",">> ELSE <<>>)])

\* NewQuery returns res and query.params (resultParams is built and dropped)
NewQuery(t, fs, os) ==
    LET q == ApplyAll(os, NewQueryStruct(t))
        res == Select \o RenderFields(fs) \o <<" FROM">> \o <<" ">> \o t
               \o Concat(q.join) \o RenderWhere(q) \o RenderAggregations(q)
        resultParams == q.params \o q.aggregationParams
    IN [query |-> q, text |-> res, args |-> q.params]

NewInsert(t, fs) ==
    LET res == Insert \o <<" ">> \o t \o <<" (">>
               \o JoinWith([i \in 1..Len(fs) |->
                              Replace(fs[i], t \o <<".">>, InsertReplaceCount)],
                           <<", ">>)
        values == <<" VALUES (">> \o JoinWith([i \in 1..Len(fs) |-> <<Q>>], <<", ">>)
    IN res \o <<")">> \o values \o <<")">>

\* NewUpdate appending query.params before query.setParams
NewUpdateParamsFirst(t, os) ==
    LET q == ApplyAll(os, NewQueryStruct(t))
        res == Update \o <<" ">> \o t \o <<" SET">> \o RenderSets(q, t)
               \o Concat(q.join) \o RenderWhere(q) \o RenderAggregations(q)
        resultParams == q.params \o q.setParams \o q.aggregationParams
    IN [query |-> q, text |-> res, args |-> resultParams]

NewUpdate(t, os) ==
    LET q == ApplyAll(os, NewQueryStruct(t))
        res == Update \o <<" ">> \o t \o <<" SET">> \o RenderSets(q, t)
               \o Concat(q.join) \o RenderWhere(q) \o RenderAggregations(q)
        resultParams == q.setParams \o q.params \o q.aggregationParams
    IN [query |-> q, text |-> res, args |-> resultParams]

\* NewDelete rendering the WHERE clause before the joins
NewDeleteWhereFirst(t, os) ==
    LET q == ApplyAll(os, NewQueryStruct(t))
        res == Delete \o <<" FROM">> \o <<" ">> \o t
               \o RenderWhere(q) \o Concat(q.join) \o RenderAggregations(q)
        resultParams == q.params \o q.aggregationParams
    IN [query |-> q, text |-> res, args |-> q.params]

\* NewDelete returns res and query.params (resultParams is built and dropped)
NewDelete(t, os) ==
    LET q == ApplyAll(os, NewQueryStruct(t))
        res == Delete \o <<" FROM">> \o <<" ">> \o t
               \o Concat(q.join) \o RenderWhere(q) \o RenderAggregations(q)
        resultParams == q.params \o q.aggregationParams
    IN [query |-> q, text |-> res, args |-> q.params]

\* -------------------------------------------------- the caller's inputs

users == <<"users">>
products == <<"products">>
userID == <<"users", ".", "id">>
userName == <<"users", ".", "name">>
productsUserID == <<"products", ".", "user_id">>

LeftJoin == <<"LEFT">>
Desc == <<"DESC">>
OpIn == <<"IN">>

\* the values a Where is called with: <<>>, <<1>>, <<1, 2>>, ...
WhereParams == {[i \in 1..k |-> i] : k \in 0..MaxParams}

SetValues == {7, 8}

\* (on, equal) of a Join: no condition, half a condition, or
\* users.id = products.user_id
JoinConditions == {<<<<>>, <<>>>>, <<userID, <<>>>>, <<userID, productsUserID>>}

FieldLists == {<<>>, <<userID, userName>>}

\* the number of options of a list, nested ones included
RECURSIVE Size(_)
Size(os) ==
    IF os = <<>> THEN 0
    ELSE 1 + (IF Head(os).kind \in {"And", "Or"} THEN Size(Head(os).opts) ELSE 0)
         + Size(Tail(os))

\* --------------------------------------------------------------- state

Init ==
    /\ opts = <<>>
    /\ table = users
    /\ fields = <<>>
    /\ called = "none"
    /\ query = NewQueryStruct(<<>>)
    /\ text = <<>>
    /\ args = <<>>

\* the caller may evaluate one more option expression of the argument list
CanPush(max) ==
    /\ called = "none"
    /\ Size(opts) < max

\* the argument list with its last n options wrapped in one option
Wrapped(n, wrapper) ==
    Append(SubSeq(opts, 1, Len(opts) - n), wrapper)

CallWhere(max) ==
    /\ CanPush(max)
    /\ \E ps \in WhereParams : opts' = Append(opts, Where(userID, OpIn, ps))
    /\ UNCHANGED <<table, fields, called, query, text, args>>

CallAnd(max) ==
    /\ CanPush(max)
    /\ \E n \in 0..Len(opts) :
          opts' = Wrapped(n, And(SubSeq(opts, Len(opts) - n + 1, Len(opts))))
    /\ UNCHANGED <<table, fields, called, query, text, args>>

CallOr(max) ==
    /\ CanPush(max)
    /\ \E n \in 0..Len(opts) :
          opts' = Wrapped(n, Or(SubSeq(opts, Len(opts) - n + 1, Len(opts))))
    /\ UNCHANGED <<table, fields, called, query, text, args>>

CallSet(max) ==
    /\ CanPush(max)
    /\ \E v \in SetValues : opts' = Append(opts, Set(userName, v))
    /\ UNCHANGED <<table, fields, called, query, text, args>>

CallRaw(max) ==
    /\ CanPush(max)
    /\ opts' = Append(opts, Raw(<<"OFFSET ", Q>>, <<9>>))
    /\ UNCHANGED <<table, fields, called, query, text, args>>

CallRawWhere(max) ==
    /\ CanPush(max)
    /\ opts' = Append(opts, RawWhere(<<"users", ".", "age", " > ", Q>>, <<4>>))
    /\ UNCHANGED <<table, fields, called, query, text, args>>

CallJoin(max) ==
    /\ CanPush(max)
    /\ \E c \in JoinConditions :
          opts' = Append(opts, Join(products, LeftJoin, c[1], c[2]))
    /\ UNCHANGED <<table, fields, called, query, text, args>>

CallLimit(max) ==
    /\ CanPush(max)
    /\ opts' = Append(opts, Limit(5))
    /\ UNCHANGED <<table, fields, called, query, text, args>>

CallOrderBy(max) ==
    /\ CanPush(max)
    /\ opts' = Append(opts, OrderBy(userID, Desc))
    /\ UNCHANGED <<table, fields, called, query, text, args>>

CallFirst(max) ==
    /\ CanPush(max)
    /\ opts' = Append(opts, First)
    /\ UNCHANGED <<table, fields, called, query, text, args>>

Return(kind, r) ==
    /\ called' = kind
    /\ query' = r.query
    /\ text' = r.text
    /\ args' = r.args

CallNewQuery ==
    /\ called = "none"
    /\ \E fs \in FieldLists :
          /\ fields' = fs
          /\ Return("NewQuery", NewQuery(table, fs, opts))
    /\ UNCHANGED <<opts, table>>

CallNewUpdate ==
    /\ called = "none"
    /\ Return("NewUpdate", NewUpdate(table, opts))
    /\ UNCHANGED <<opts, table, fields>>

CallNewDelete ==
    /\ called = "none"
    /\ Return("NewDelete", NewDelete(table, opts))
    /\ UNCHANGED <<opts, table, fields>>

Next ==
    \/ CallWhere(MaxOptions)
    \/ CallAnd(MaxOptions)
    \/ CallOr(MaxOptions)
    \/ CallSet(MaxOptions)
    \/ CallRaw(MaxOptions)
    \/ CallRawWhere(MaxOptions)
    \/ CallJoin(MaxOptions)
    \/ CallLimit(MaxOptions)
    \/ CallOrderBy(MaxOptions)
    \/ CallFirst(MaxOptions)
    \/ CallNewQuery
    \/ CallNewUpdate
    \/ CallNewDelete

Spec == Init /\ [][Next]_vars

\* a caller that passes predicates only
NextPredicates ==
    \/ CallWhere(MaxPredicates)
    \/ CallRawWhere(MaxPredicates)
    \/ CallAnd(MaxPredicates)
    \/ CallOr(MaxPredicates)
    \/ CallNewQuery
    \/ CallNewUpdate
    \/ CallNewDelete

SpecPredicates == Init /\ [][NextPredicates]_vars

\* ------------------------------------ field names with a table qualifier

NameSymbols == {"users", ".", "id"}

Names == UNION {[1..n -> NameSymbols] : n \in 1..MaxNameLen}

\* the caller holds one field name and has called nothing yet
InitStrip ==
    /\ opts = <<>>
    /\ table = users
    /\ fields \in {<<n>> : n \in Names}
    /\ called = "none"
    /\ query = NewQueryStruct(<<>>)
    /\ text = <<>>
    /\ args = <<>>

InsertField ==
    /\ called = "none"
    /\ called' = "NewInsert"
    /\ text' = NewInsert(table, fields)
    /\ UNCHANGED <<opts, table, fields, query, args>>

UpdateField ==
    /\ called = "none"
    /\ \E v \in SetValues :
          /\ opts' = <<Set(fields[1], v)>>
          /\ Return("NewUpdate", NewUpdate(table, opts'))
    /\ UNCHANGED <<table, fields>>

NextStrip ==
    \/ InsertField
    \/ UpdateField

SpecStrip == InitStrip /\ [][NextStrip]_vars

\* ============================================================ properties
\* What the specification says of an argument list, stated on the option
\* tree itself and not on the accumulator the code threads through it.

Builders == {"NewQuery", "NewUpdate", "NewDelete"}

PredicateKinds == {"Where", "RawWhere", "Or"}

TrailingKinds == {"Raw", "Limit", "OrderBy", "First"}

\* the result of the builder named kind
Build(kind, t, fs, os) ==
    CASE kind = "NewQuery" -> NewQuery(t, fs, os)
      [] kind = "NewUpdate" -> NewUpdate(t, os)
      [] kind = "NewDelete" -> NewDelete(t, os)

\* the number of placeholders of a text
RECURSIVE CountQ(_)
CountQ(txt) ==
    IF txt = <<>> THEN 0
    ELSE (IF Head(txt) = Q THEN 1 ELSE 0) + CountQ(Tail(txt))

\* the concatenation of a sequence of sequences
RECURSIVE SpecFlatten(_)
SpecFlatten(ss) ==
    IF ss = <<>> THEN <<>>
    ELSE SpecFlatten(SubSeq(ss, 1, Len(ss) - 1)) \o ss[Len(ss)]

\* the members, with sep before every member but the first
SpecSepJoin(ws, sep) ==
    SpecFlatten([i \in 1..Len(ws) |-> IF i = 1 THEN ws[i] ELSE sep \o ws[i]])

\* the options listed inline: every Conjunction replaced by what it nests
RECURSIVE Inline(_)
Inline(os) ==
    IF os = <<>> THEN <<>>
    ELSE (IF Head(os).kind = "And" THEN Inline(Head(os).opts) ELSE <<Head(os)>>)
         \o Inline(Tail(os))

OfKinds(os, kinds) == SelectSeq(Inline(os), LAMBDA o : o.kind \in kinds)

\* k comma-separated placeholders
RECURSIVE SpecMarks(_)
SpecMarks(k) ==
    IF k = 1 THEN <<Q>> ELSE SpecMarks(k - 1) \o <<",", Q>>

\* field operator | field operator ? | field operator (?,...,?)
SpecWhereFragment(field, operation, k) ==
    field \o <<" ">> \o operation
    \o (CASE k = 0 -> <<>>
          [] k = 1 -> <<" ", Q>>
          [] k > 1 -> <<" (">> \o SpecMarks(k) \o <<")">>)

\* the one fragment of a predicate option; a Disjunction's members OR-joined
RECURSIVE SpecPredFragment(_)
SpecPredFragment(o) ==
    CASE o.kind = "Where" -> SpecWhereFragment(o.field, o.operation, Len(o.params))
      [] o.kind = "RawWhere" -> o.query
      [] o.kind = "Or" ->
            LET ps == OfKinds(o.opts, PredicateKinds)
            IN SpecSepJoin([i \in 1..Len(ps) |-> SpecPredFragment(ps[i])],
                           <<" OR ">>)

\* the arguments of a predicate option, in call order
RECURSIVE SpecPredArgs(_)
SpecPredArgs(o) ==
    CASE o.kind \in {"Where", "RawWhere"} -> o.params
      [] o.kind = "Or" ->
            LET ps == OfKinds(o.opts, PredicateKinds)
            IN SpecFlatten([i \in 1..Len(ps) |-> SpecPredArgs(ps[i])])

SpecTrailFragment(o) ==
    CASE o.kind = "Limit" -> <<"LIMIT ", Q>>
      [] o.kind = "OrderBy" -> <<"ORDER BY ">> \o o.field \o <<" ">> \o o.order
      [] o.kind = "First" -> <<"LIMIT 1">>
      [] o.kind = "Raw" -> o.query

SpecTrailArgs(o) ==
    CASE o.kind = "Limit" -> <<o.limit>>
      [] o.kind = "Raw" -> o.params
      [] OTHER -> <<>>

SpecJoinFragment(o) ==
    <<" ">> \o o.joinType \o <<" JOIN ">> \o o.table
    \o (IF o.on = <<>> \/ o.equal = <<>> THEN <<>>
        ELSE <<" ON ">> \o o.on \o <<" = ">> \o o.equal)

\* a field name without its leading "<entity>." qualifier
SpecStripQualifier(f, t) ==
    LET qual == t \o <<".">>
    IN IF Len(f) >= Len(qual) /\ SubSeq(f, 1, Len(qual)) = qual
       THEN SubSeq(f, Len(qual) + 1, Len(f))
       ELSE f

PredArgs(os) ==
    LET ps == OfKinds(os, PredicateKinds)
    IN SpecFlatten([i \in 1..Len(ps) |-> SpecPredArgs(ps[i])])

TrailArgs(os) ==
    LET ts == OfKinds(os, TrailingKinds)
    IN SpecFlatten([i \in 1..Len(ts) |-> SpecTrailArgs(ts[i])])

SetArgs(os) ==
    LET ss == OfKinds(os, {"Set"})
    IN [i \in 1..Len(ss) |-> ss[i].value]

\* SELECT <fields or *> FROM <entity> | UPDATE <entity> SET ... | DELETE FROM
SpecHead(kind, t, fs, os) ==
    CASE kind = "NewQuery" ->
            <<"SELECT">>
            \o (IF fs = <<>> THEN <<" *">> ELSE <<" ">> \o SpecSepJoin(fs, <<",", " ">>))
            \o <<" FROM", " ">> \o t
      [] kind = "NewUpdate" ->
            LET ss == OfKinds(os, {"Set"})
            IN <<"UPDATE", " ">> \o t \o <<" SET">>
               \o (IF ss = <<>> THEN <<>>
                   ELSE <<" ">>
                        \o SpecSepJoin([i \in 1..Len(ss) |->
                                          SpecStripQualifier(ss[i].field, t)
                                          \o <<" = ", Q>>],
                                       <<",", " ">>))
      [] kind = "NewDelete" -> <<"DELETE", " FROM", " ">> \o t

SpecJoins(os) ==
    LET js == OfKinds(os, {"Join"})
    IN SpecFlatten([i \in 1..Len(js) |-> SpecJoinFragment(js[i])])

SpecWhere(os) ==
    LET ps == OfKinds(os, PredicateKinds)
    IN IF ps = <<>> THEN <<>>
       ELSE <<" WHERE ">>
            \o SpecSepJoin([i \in 1..Len(ps) |-> SpecPredFragment(ps[i])],
                           <<" AND ">>)

SpecTrailing(os) ==
    LET ts == OfKinds(os, TrailingKinds)
    IN IF ts = <<>> THEN <<>>
       ELSE <<" ">>
            \o SpecSepJoin([i \in 1..Len(ts) |-> SpecTrailFragment(ts[i])], <<" ">>)

\* whether an option list uses a raw option, at any depth
RECURSIVE HasRaw(_)
HasRaw(os) ==
    \E i \in 1..Len(os) :
        \/ os[i].kind \in {"Raw", "RawWhere"}
        \/ os[i].kind \in {"And", "Or"} /\ HasRaw(os[i].opts)

\* C1: for NewQuery, NewUpdate and NewDelete and every list of built-in
\* non-raw options, the statement text has as many ? placeholders as the
\* returned argument sequence has elements.
C1_PlaceholdersMatchArguments ==
    (called \in Builders /\ ~HasRaw(opts)) => CountQ(text) = Len(args)

\* C2: NewQuery and NewDelete return the predicate arguments followed by the
\* trailing arguments; NewQuery(users, nil, Limit(_), OrderBy(users.id, Desc))
\* returns SELECT * FROM users LIMIT ? ORDER BY users.id DESC with the limit
\* as its one argument.
C2_QueryDeleteArguments ==
    called \in {"NewQuery", "NewDelete"} =>
        /\ args = PredArgs(opts) \o TrailArgs(opts)
        /\ (called = "NewQuery" /\ fields = <<>>
            /\ opts = <<Limit(5), OrderBy(userID, Desc)>>) =>
              /\ text = <<"SELECT", " *", " FROM", " ", "users", " ", "LIMIT ", Q,
                          " ", "ORDER BY ", "users", ".", "id", " ", "DESC">>
              /\ args = <<5>>

\* the accumulator before and after the i-th option of the argument list
Before(i) == ApplyAll(SubSeq(opts, 1, i - 1), NewQueryStruct(table))

After(i) == Apply(opts[i], Before(i))

\* C3: NewUpdate returns all assignment values in Set call order, then all
\* predicate arguments, then all trailing arguments, whatever the order of
\* the options, and that is the placeholder order of the rendered
\* SET ... WHERE ... <trailing> text.
C3_UpdateArguments ==
    called = "NewUpdate" =>
        /\ args = SetArgs(opts) \o PredArgs(opts) \o TrailArgs(opts)
        /\ text = SpecHead("NewUpdate", table, fields, opts) \o SpecJoins(opts)
                  \o SpecWhere(opts) \o SpecTrailing(opts)
        /\ CountQ(SpecHead("NewUpdate", table, fields, opts)) = Len(SetArgs(opts))
        /\ CountQ(SpecJoins(opts)) = 0
        /\ CountQ(SpecWhere(opts)) = Len(PredArgs(opts))
        /\ CountQ(SpecTrailing(opts)) = Len(TrailArgs(opts))

\* NewUpdate was given a Limit, then a Where with values, then a Set
C3_Witness ==
    /\ called = "NewUpdate"
    /\ \E i, j, k \in 1..Len(opts) :
          /\ i < j /\ j < k
          /\ opts[i].kind = "Limit"
          /\ opts[j].kind = "Where" /\ opts[j].params # <<>>
          /\ opts[k].kind = "Set"
    /\ args = <<opts[3].value>> \o opts[2].params \o <<opts[1].limit>>

\* whether a list is made of Where, And and Or only, at any depth
RECURSIVE OnlyWhereAndOr(_)
OnlyWhereAndOr(os) ==
    \A i \in 1..Len(os) :
        \/ os[i].kind = "Where"
        \/ os[i].kind \in {"And", "Or"} /\ OnlyWhereAndOr(os[i].opts)

\* the values of the Where options of a list, in left-to-right call order
RECURSIVE WhereValues(_)
WhereValues(os) ==
    IF os = <<>> THEN <<>>
    ELSE (CASE Head(os).kind = "Where" -> Head(os).params
            [] Head(os).kind \in {"And", "Or"} -> WhereValues(Head(os).opts)
            [] OTHER -> <<>>)
         \o WhereValues(Tail(os))

\* a text with its i-th placeholder replaced by its i-th argument
RECURSIVE Bind(_, _)
Bind(txt, as) ==
    IF txt = <<>> THEN <<>>
    ELSE IF Head(txt) = Q /\ as # <<>>
         THEN <<ToString(Head(as))>> \o Bind(Tail(txt), Tail(as))
         ELSE <<Head(txt)>> \o Bind(Tail(txt), as)

\* a predicate with its own values written where its placeholders are
RECURSIVE SpecPredBound(_)
SpecPredBound(o) ==
    CASE o.kind = "Where" ->
            o.field \o <<" ">> \o o.operation
            \o (CASE Len(o.params) = 0 -> <<>>
                  [] Len(o.params) = 1 -> <<" ", ToString(o.params[1])>>
                  [] OTHER ->
                        <<" (">>
                        \o SpecSepJoin([i \in 1..Len(o.params) |->
                                          <<ToString(o.params[i])>>], <<",">>)
                        \o <<")">>)
      [] o.kind = "Or" ->
            LET ps == OfKinds(o.opts, PredicateKinds)
            IN SpecSepJoin([i \in 1..Len(ps) |-> SpecPredBound(ps[i])], <<" OR ">>)

\* C4: under any nesting of Where, And and Or the predicate arguments are
\* the values of the Where options in left-to-right call order, and the i-th
\* ? of the WHERE clause is the placeholder of the i-th argument: binding the
\* arguments to the placeholders in order gives every predicate its own values.
C4_PredicateArgumentOrder ==
    (called \in Builders /\ OnlyWhereAndOr(opts)) =>
        /\ query.params = WhereValues(opts)
        /\ args = WhereValues(opts)
        /\ CountQ(text) = Len(args)
        /\ LET ps == OfKinds(opts, PredicateKinds)
           IN Bind(text, args) =
                 SpecHead(called, table, fields, opts)
                 \o (IF ps = <<>> THEN <<>>
                     ELSE <<" WHERE ">>
                          \o SpecSepJoin([i \in 1..Len(ps) |-> SpecPredBound(ps[i])],
                                         <<" AND ">>))

\* a Disjunction with a valued Where stands between two valued Wheres
C4_Witness ==
    /\ called \in Builders
    /\ OnlyWhereAndOr(opts)
    /\ \E i \in 2..(Len(opts) - 1) :
          /\ opts[i].kind = "Or"
          /\ \E j \in 1..Len(opts[i].opts) :
                opts[i].opts[j].kind = "Where" /\ opts[i].opts[j].params # <<>>
          /\ opts[i - 1].kind = "Where" /\ opts[i - 1].params # <<>>
          /\ opts[i + 1].kind = "Where" /\ opts[i + 1].params # <<>>

\* C5: the text of NewQuery, NewUpdate and NewDelete is the head, then the
\* join fragments, then WHERE with the predicate fragments, then the trailing
\* fragments, however the options are interleaved, each kind in the order its
\* options were applied, none reordered, dropped or duplicated.
C5_ClauseOrder ==
    called \in Builders =>
        text = SpecHead(called, table, fields, opts) \o SpecJoins(opts)
               \o SpecWhere(opts) \o SpecTrailing(opts)

\* a trailing option was passed before a predicate and that before a join
C5_Witness ==
    /\ called \in Builders
    /\ Len(opts) = 3
    /\ opts[1].kind \in TrailingKinds
    /\ opts[2].kind \in PredicateKinds
    /\ opts[3].kind = "Join"
    /\ Len(query.join) = 1 /\ Len(query.where) = 1 /\ Len(query.aggregations) = 1

\* C6: Where(field, op, v1..vk) appends exactly one predicate fragment and
\* the k arguments v1..vk in order: field op for k = 0, field op ? for k = 1,
\* and field op ( k comma-separated ? ) for k > 1; nothing else changes.
C6_WhereFragment ==
    \A i \in 1..Len(opts) :
        opts[i].kind = "Where" =>
            LET q0 == Before(i)
                q1 == After(i)
                k == Len(opts[i].params)
                frag == SpecWhereFragment(opts[i].field, opts[i].operation, k)
            IN /\ q1.where = Append(q0.where, frag)
               /\ q1.params = q0.params \o opts[i].params
               /\ CountQ(frag) = k
               /\ k > 1 => /\ Len(frag) = Len(opts[i].field) + 2 * k + 3
                           /\ frag[Len(frag)] = ")"
               /\ q1 = [q0 EXCEPT !.where = q1.where, !.params = q1.params]
               /\ (i = Len(opts) /\ called \in Builders) => query = q1

\* a builder ran a Where with several values after another option
C6_Witness ==
    /\ called \in Builders
    /\ Len(opts) > 1
    /\ opts[Len(opts)].kind = "Where"
    /\ Len(opts[Len(opts)].params) > 1
    /\ Len(query.where) > 0
    /\ query.where[Len(query.where)] =
          <<"users", ".", "id", " ", "IN", " (", Q, ",", Q, ")">>

\* the argument list with its i-th option replaced by the options it nests
Spliced(i) ==
    SubSeq(opts, 1, i - 1) \o opts[i].opts \o SubSeq(opts, i + 1, Len(opts))

\* C8: And(xs...) is the same as listing xs inline: every builder returns the
\* same text and the same arguments for pre, And(xs...), post as for
\* pre, xs..., post.
C8_AndIsInline ==
    called \in Builders =>
        \A i \in 1..Len(opts) :
            opts[i].kind = "And" =>
                LET r == Build(called, table, fields, Spliced(i))
                IN /\ r.text = text
                   /\ r.args = args
                   /\ r.query = query

\* a builder ran an And of two options of different kinds
C8_Witness ==
    /\ called \in Builders
    /\ \E i \in 1..Len(opts) :
          /\ opts[i].kind = "And"
          /\ Len(opts[i].opts) = 2
          /\ opts[i].opts[1].kind # opts[i].opts[2].kind
          /\ Spliced(i) # opts

\* C9: Or(opts...) appends exactly one predicate fragment, the nested
\* predicate fragments joined by " OR " without parentheses, so that
\* Where(a), Or(Where(b), Where(c)) renders WHERE a AND b OR c; for no nested
\* predicate the fragment is empty and the builder still emits " WHERE ".
C9_OrFragment ==
    /\ \A i \in 1..Len(opts) :
          opts[i].kind = "Or" =>
              LET ps == OfKinds(opts[i].opts, PredicateKinds)
                  frag == SpecSepJoin([j \in 1..Len(ps) |-> SpecPredFragment(ps[j])],
                                      <<" OR ">>)
              IN /\ After(i).where = Append(Before(i).where, frag)
                 /\ ps = <<>> => After(i).where[Len(After(i).where)] = <<>>
    /\ (called \in Builders /\ Len(opts) = 1 /\ opts[1].kind = "Or"
        /\ OfKinds(opts[1].opts, PredicateKinds) = <<>>) =>
            text = SpecHead(called, table, fields, opts) \o <<" WHERE ">>
    /\ (called \in Builders /\ Len(opts) = 2 /\ opts[1].kind = "Where"
        /\ opts[2].kind = "Or" /\ Len(opts[2].opts) = 2
        /\ opts[2].opts[1].kind = "Where" /\ opts[2].opts[2].kind = "Where") =>
            text = SpecHead(called, table, fields, opts) \o <<" WHERE ">>
                   \o SpecPredFragment(opts[1]) \o <<" AND ">>
                   \o SpecPredFragment(opts[2].opts[1]) \o <<" OR ">>
                   \o SpecPredFragment(opts[2].opts[2])

\* NewQuery ran Where(a), Or(Where(b), Where(c))
C9_Witness ==
    /\ called = "NewQuery"
    /\ fields = <<>>
    /\ opts = <<Where(userID, OpIn, <<1>>),
                Or(<<Where(userID, OpIn, <<>>), Where(userID, OpIn, <<1, 2>>)>>)>>
    /\ text = <<"SELECT", " *", " FROM", " ", "users", " WHERE ",
                "users", ".", "id", " ", "IN", " ", Q, " AND ",
                "users", ".", "id", " ", "IN", " OR ",
                "users", ".", "id", " ", "IN", " (", Q, ",", Q, ")">>

\* a list without its Join, Set, Limit, OrderBy, First and Raw options
RECURSIVE PredicatesOnly(_)
PredicatesOnly(os) ==
    IF os = <<>> THEN <<>>
    ELSE (CASE Head(os).kind \in {"Where", "RawWhere"} -> <<Head(os)>>
            [] Head(os).kind = "And" -> <<And(PredicatesOnly(Head(os).opts))>>
            [] Head(os).kind = "Or" -> <<Or(PredicatesOnly(Head(os).opts))>>
            [] OTHER -> <<>>)
         \o PredicatesOnly(Tail(os))

\* a list with every Disjunction reduced to the predicates it nests
RECURSIVE WithoutOthersInOr(_)
WithoutOthersInOr(os) ==
    IF os = <<>> THEN <<>>
    ELSE (CASE Head(os).kind = "Or" -> <<Or(PredicatesOnly(Head(os).opts))>>
            [] Head(os).kind = "And" -> <<And(WithoutOthersInOr(Head(os).opts))>>
            [] OTHER -> <<Head(os)>>)
         \o WithoutOthersInOr(Tail(os))

\* whether a list holds an option that is no predicate, at any depth
RECURSIVE HasOther(_)
HasOther(os) ==
    \E i \in 1..Len(os) :
        \/ os[i].kind \notin {"Where", "RawWhere", "And", "Or"}
        \/ os[i].kind \in {"And", "Or"} /\ HasOther(os[i].opts)

\* C10: applying Or changes only the predicate fragments and arguments of the
\* enclosing accumulator, so a Join, Set, Limit, OrderBy, First or Raw nested
\* in an Or adds nothing to the builder's text or arguments.
C10_OrFrame ==
    /\ \A i \in 1..Len(opts) :
          opts[i].kind = "Or" =>
              After(i) = [Before(i) EXCEPT !.where = After(i).where,
                                           !.params = After(i).params]
    /\ called \in Builders =>
          LET r == Build(called, table, fields, WithoutOthersInOr(opts))
          IN /\ r.text = text
             /\ r.args = args
             /\ r.query = query

\* a builder ran, after another option, an Or that nests an option that is
\* no predicate
C10_Witness ==
    /\ called \in Builders
    /\ \E i \in 2..Len(opts) :
          /\ opts[i].kind = "Or"
          /\ HasOther(opts[i].opts)
    /\ WithoutOthersInOr(opts) # opts

\* C7: NewInsert and NewUpdate emit every field name with a leading
\* "<table>." removed and otherwise unchanged: removed only as a prefix and at
\* most once, a name that does not start with it is emitted as it is, and
\* both emit the same column for the same field and table.
C7_QualifierStripped ==
    /\ called = "NewInsert" =>
          text = <<"INSERT INTO", " ">> \o table \o <<" (">>
                 \o SpecStripQualifier(fields[1], table)
                 \o <<")", " VALUES (", Q, ")">>
    /\ (called = "NewUpdate" /\ Len(opts) = 1 /\ opts[1].kind = "Set") =>
          text = <<"UPDATE", " ">> \o table \o <<" SET", " ">>
                 \o SpecStripQualifier(opts[1].field, table) \o <<" = ", Q>>

====
